---- MODULE Spec2Model ----
(***************************************************************************)
(* The remote-control focus engine of the Panasonic TV app                 *)
(* (js/remote-control.js, class RemoteControlHandler) as a state machine.  *)
(*                                                                         *)
(* The DOM the engine reads is input: the list of .nav-item elements at    *)
(* the time of updateNavItems, whether an element holds a .nav-button,     *)
(* whether #home-btn exists at the time of a back navigation, the number   *)
(* of focusable elements of the content region at the time of              *)
(* enableContentNavigation.  Elements are identified by small numbers;     *)
(* querySelectorAll yields them in document order, which is the order of   *)
(* their numbers.                                                          *)
(*                                                                         *)
(* The page may also hold the vendor key handling of js/panasonic-api.js   *)
(* (class PanasonicTVAPI): its document keydown listener, the exit prompt  *)
(* and the 'tvBackButton' notification it sends to the engine.             *)
(***************************************************************************)
EXTENDS Integers, Sequences, FiniteSets

\* Bounds of the model.
MaxItems == 3        \* number of distinct .nav-item elements
MaxContent == 2      \* focusable elements of the content region
MaxListeners == 1    \* content keydown listeners ever registered
MaxPresent == 2      \* feature indicators the host provides
MaxThrowing == 1     \* feature indicators whose read throws
MaxCalls == 2       \* accessor calls of FirefoxOSAPI made on one page
MaxFiles == 2       \* files one storage enumeration yields
MaxPending == 1     \* accessor calls made next to the engine's key events
MaxPolls == 2       \* polls of waitForComponents that are told apart

VARIABLES
    navItems,        \* this.navItems: sequence of element ids
    currentFocus,    \* this.currentFocus
    isNavigating,    \* this.isNavigating
    active,          \* the elements whose classList holds 'active'
    buttons,         \* the elements that hold a .nav-button
    inputFocus,      \* document.activeElement
    listeners,       \* keydown listeners of the content region (closures)
    clicks,          \* the click() calls of the last operation, in order
    defaultPrevented, \* whether the last key event had preventDefault called
    error,           \* a handler has thrown
    last,            \* the last operation and what it started from
    runKind,         \* "left" or "right" while only that key has been pressed in a row
    runLen,          \* how many times in a row, counted up to MaxItems + 1
    runStart,        \* currentFocus when the row began
    isTV,            \* PanasonicTVAPI.isTV
    tvKeyCodes,      \* PanasonicTVAPI.tvKeyCodes: a record, or NoKeyCodes while never assigned
    terminated,      \* "no", or how the page was left: "close" or "blank"
    tvError,         \* a listener of PanasonicTVAPI has thrown
    dispatched,      \* the custom events the last key event sent to the document
    vendor,          \* the vendor button handleTVKeys logged for the last key event
    ev,              \* the last key event of the page and the answer to its prompt
    host,            \* the hosting environment: what reading each feature indicator gives
    caps,            \* PanasonicTVAPI.capabilities, or NoCaps while not assigned
    fxCaps,          \* FirefoxOSAPI.capabilities, or NoCaps while not assigned
    probed,          \* the capability probes that have run
    probeThrew,      \* the capability probes that have thrown
    sysInfo,         \* who answered the last getSystemInfo() ("none" before the first)
                     \* and whether its catch block ran
    fx,              \* the FirefoxOSAPI object: this.settings, this.capabilities.apps and
                     \* the storage classes whose this.<class>Storage is set
    calls,           \* the accessor calls made so far: promise, provider request, closure
    page,            \* the page load: user agent, globals set, media integration,
                     \* initialized Firefox OS features, last media event
    app              \* the PanasonicTVApp object

tvVars == <<isTV, tvKeyCodes, terminated, tvError, dispatched, vendor, ev>>
capVars == <<host, caps, fxCaps, probed, probeThrew, sysInfo>>
accVars == <<fx, calls>>
loadVars == <<page, app>>

vars == <<navItems, currentFocus, isNavigating, active, buttons, inputFocus,
          listeners, clicks, defaultPrevented, error, last,
          runKind, runLen, runStart,
          isTV, tvKeyCodes, terminated, tvError, dispatched, vendor, ev,
          host, caps, fxCaps, probed, probeThrew, sysInfo,
          fx, calls, page, app>>

Elems == 1..MaxItems

Range(s) == {s[i] : i \in 1..Len(s)}

\* querySelectorAll('.nav-item'): the documents of the model hold the first k
\* elements of a fixed list, in document order.
ItemSeqs == {[i \in 1..k |-> i] : k \in 0..MaxItems}

\* Only the first element may lack its .nav-button, and the markup gives the
\* 'active' class to no element or to the last one.
ButtonSets == {Elems, Elems \ {1}}
Markups == {{}, {MaxItems}}

\* The numbers of focusable elements a content region is found to hold: none,
\* one, or as many as the model allows.
RegionSizes == {0, 1, MaxContent}

NoFocus == [kind |-> "none", id |-> 0]
NavButton(e) == [kind |-> "nav", id |-> e]
ContentItem(k) == [kind |-> "content", id |-> k]

HomeBtn == 0   \* the click target #home-btn; nav buttons are named by their item

\* Key codes of js/remote-control.js:61-87, and one code the router does not know.
KeyLeft == 37
KeyUp == 38
KeyRight == 39
KeyDown == 40
KeyEnter == 13
KeySpace == 32
KeyEscape == 27
KeyTab == 9   \* stands for every code the switch leaves to its default case
KeyCodes == {KeyLeft, KeyUp, KeyRight, KeyDown, KeyEnter, KeySpace, KeyEscape, KeyTab}

\* The engine and the part of the document it touches, as one record.
St ==
    [navItems |-> navItems, currentFocus |-> currentFocus,
     isNavigating |-> isNavigating, active |-> active,
     inputFocus |-> inputFocus, listeners |-> listeners,
     clicks |-> clicks, defaultPrevented |-> defaultPrevented, error |-> error]

\* remote-control.js:7-10, before init() runs.
constructed(act) ==
    [navItems |-> <<>>, currentFocus |-> 0, isNavigating |-> FALSE,
     active |-> act, inputFocus |-> NoFocus, listeners |-> <<>>,
     clicks |-> <<>>, defaultPrevented |-> FALSE, error |-> FALSE]

\* remote-control.js:42-45
updateNavItems(s, dom) == [s EXCEPT !.navItems = dom]

\* remote-control.js:141-164
setFocusDropsCurrentOnly(s, index) ==
    LET items == s.navItems
        n == Len(items)
        old == IF s.currentFocus >= 0 /\ s.currentFocus < n
               THEN {items[s.currentFocus + 1]} ELSE {}
        cleared == [s EXCEPT !.active = @ \ old,
                             !.inputFocus =
                                 IF @.kind = "nav" /\ @.id \in Range(items) \cap buttons
                                 THEN NoFocus ELSE @]
    IN  IF index >= 0 /\ index < n
        THEN [cleared EXCEPT !.currentFocus = index,
                             !.active = @ \cup {items[index + 1]},
                             !.inputFocus = IF items[index + 1] \in buttons
                                            THEN NavButton(items[index + 1]) ELSE @]
        ELSE cleared

setFocusUnguarded(s, index) ==
    LET items == s.navItems
        n == Len(items)
        cleared == [s EXCEPT !.active = @ \ Range(items),
                             !.inputFocus =
                                 IF @.kind = "nav" /\ @.id \in Range(items) \cap buttons
                                 THEN NoFocus ELSE @]
    IN  IF index >= 0 /\ index < n
        THEN [cleared EXCEPT !.currentFocus = index,
                             !.active = @ \cup {items[index + 1]},
                             !.inputFocus = IF items[index + 1] \in buttons
                                            THEN NavButton(items[index + 1]) ELSE @]
        ELSE [cleared EXCEPT !.currentFocus = index, !.error = TRUE]

setFocus(s, index) ==
    LET items == s.navItems
        n == Len(items)
        \* forEach: classList.remove('active'), and blur() of each item's button
        cleared == [s EXCEPT !.active = @ \ Range(items),
                             !.inputFocus =
                                 IF @.kind = "nav" /\ @.id \in Range(items) \cap buttons
                                 THEN NoFocus ELSE @]
    IN  IF index >= 0 /\ index < n
        THEN [cleared EXCEPT !.currentFocus = index,
                             !.active = @ \cup {items[index + 1]},
                             !.inputFocus = IF items[index + 1] \in buttons
                                            THEN NavButton(items[index + 1]) ELSE @]
        ELSE cleared

\* remote-control.js:50-54
setInitialFocus(s) == IF Len(s.navItems) > 0 THEN setFocus(s, 0) ELSE s

\* remote-control.js:17-23 (the key listeners are the Keydown and TvBackButton actions)
initWithoutFocus(s, dom) == updateNavItems(s, dom)

init(s, dom) == setInitialFocus(updateNavItems(s, dom))

\* remote-control.js:97-105
navigateLeftNoWrap(s) ==
    IF s.currentFocus > 0 THEN setFocus(s, s.currentFocus - 1) ELSE setFocus(s, 0)

navigateLeft(s) ==
    IF s.currentFocus > 0
    THEN setFocus(s, s.currentFocus - 1)
    ELSE setFocus(s, Len(s.navItems) - 1)

\* remote-control.js:110-118
navigateRightOffByOne(s) ==
    IF s.currentFocus < Len(s.navItems)
    THEN setFocus(s, s.currentFocus + 1)
    ELSE setFocus(s, 0)

navigateRight(s) ==
    IF s.currentFocus < Len(s.navItems) - 1
    THEN setFocus(s, s.currentFocus + 1)
    ELSE setFocus(s, 0)

\* remote-control.js:123-127 and 132-136: they only log
navigateUp(s) == s
navigateDown(s) == s

\* remote-control.js:169-179
activateFirstItem(s) ==
    IF Len(s.navItems) > 0 /\ s.navItems[1] \in buttons
    THEN [s EXCEPT !.clicks = Append(@, s.navItems[1])]
    ELSE s

activateCurrentItem(s) ==
    IF s.currentFocus >= 0 /\ s.currentFocus < Len(s.navItems)
       /\ s.navItems[s.currentFocus + 1] \in buttons
    THEN [s EXCEPT !.clicks = Append(@, s.navItems[s.currentFocus + 1])]
    ELSE s

\* remote-control.js:184-194; home: whether getElementById('home-btn') finds one
handleBackNavigationAlways(s, home) ==
    setFocus([s EXCEPT !.clicks = IF home THEN Append(@, HomeBtn) ELSE @], 0)

handleBackNavigation(s, home) ==
    IF home THEN setFocus([s EXCEPT !.clicks = Append(@, HomeBtn)], 0) ELSE s

\* remote-control.js:59-92
handleKeyPress(s, code, home) ==
    LET navigationKeys == {KeyLeft, KeyUp, KeyRight, KeyDown, KeyEnter, KeySpace}
        s1 == IF code \in navigationKeys
              THEN [s EXCEPT !.defaultPrevented = TRUE, !.isNavigating = TRUE]
              ELSE s
    IN  CASE code = KeyLeft -> navigateLeft(s1)
          [] code = KeyUp -> navigateUp(s1)
          [] code = KeyRight -> navigateRight(s1)
          [] code = KeyDown -> navigateDown(s1)
          [] code \in {KeyEnter, KeySpace} -> activateCurrentItem(s1)
          [] code = KeyEscape -> handleBackNavigation(s1, home)
          [] OTHER -> [s1 EXCEPT !.isNavigating = FALSE]

\* remote-control.js:328-332
resetKeepsFocus(s, dom) ==
    [updateNavItems(s, dom) EXCEPT !.isNavigating = FALSE]

reset(s, dom) ==
    [setInitialFocus(updateNavItems(s, dom)) EXCEPT !.isNavigating = FALSE]

\* remote-control.js:317-323
getNavigationState(s) ==
    [currentFocus |-> s.currentFocus, totalItems |-> Len(s.navItems),
     isNavigating |-> s.isNavigating]

\* remote-control.js:259-272, the closure of listener i
navigateContentWraps(s, i, direction) ==
    LET l == s.listeners[i]
        next == IF direction = "up" THEN (l.contentFocus - 1 + l.m) % l.m
                ELSE IF direction = "down" THEN (l.contentFocus + 1) % l.m
                ELSE l.contentFocus
    IN  [s EXCEPT !.listeners[i].contentFocus = next,
                  !.inputFocus = ContentItem(next)]

navigateContentUnclamped(s, i, direction) ==
    LET l == s.listeners[i]
        next == IF direction = "up" THEN l.contentFocus - 1
                ELSE IF direction = "down" THEN l.contentFocus + 1
                ELSE l.contentFocus
    IN  IF l.contentFocus < 0 \/ l.contentFocus >= l.m \/ next < 0 \/ next >= l.m
        THEN [s EXCEPT !.error = TRUE]
        ELSE [s EXCEPT !.listeners[i].contentFocus = next,
                       !.inputFocus = ContentItem(next)]

navigateContent(s, i, direction) ==
    LET l == s.listeners[i]
        \* focusableElements[contentFocus].blur()
        blurred == IF s.inputFocus = ContentItem(l.contentFocus) THEN NoFocus
                   ELSE s.inputFocus
        next == IF direction = "up"
                THEN (IF l.contentFocus - 1 > 0 THEN l.contentFocus - 1 ELSE 0)
                ELSE IF direction = "down"
                THEN (IF l.contentFocus + 1 < l.m - 1 THEN l.contentFocus + 1 ELSE l.m - 1)
                ELSE l.contentFocus
    IN  IF l.contentFocus < 0 \/ l.contentFocus >= l.m \/ next < 0 \/ next >= l.m
        THEN [s EXCEPT !.error = TRUE]    \* blur or focus of undefined
        ELSE [s EXCEPT !.listeners[i].contentFocus = next,
                       !.inputFocus = ContentItem(next)]

\* remote-control.js:280-296, the keydown listener i of the content region
contentKeydown(s, i, code) ==
    CASE code = KeyUp -> navigateContent([s EXCEPT !.defaultPrevented = TRUE], i, "up")
      [] code = KeyDown -> navigateContent([s EXCEPT !.defaultPrevented = TRUE], i, "down")
      [] code \in {KeyLeft, KeyRight} ->
            setFocus([s EXCEPT !.defaultPrevented = TRUE], s.currentFocus)
      [] OTHER -> s

\* remote-control.js:248-297; el: whether contentElement is given, m: the number of
\* focusable elements querySelectorAll finds in it
enableContentNavigationUnchecked(s, el, m) ==
    IF ~el THEN s
    ELSE [s EXCEPT !.inputFocus = ContentItem(0),
                   !.listeners = Append(@, [m |-> m, contentFocus |-> 0])]

enableContentNavigation(s, el, m) ==
    IF ~el THEN s
    ELSE IF m = 0 THEN s
    ELSE [s EXCEPT !.inputFocus = ContentItem(0),
                   !.listeners = Append(@, [m |-> m, contentFocus |-> 0])]

\* remote-control.js:302-312: blur() of every focusable element of the region
disableContentNavigation(s, el) ==
    IF el /\ s.inputFocus.kind = "content"
    THEN [s EXCEPT !.inputFocus = NoFocus]
    ELSE s

\* A keydown event bubbles from its target to the document: the listeners of the
\* content region run first when the target lies inside it (remote-control.js:280),
\* then the document's listener (remote-control.js:29-31).  No listener stops the
\* propagation.
RECURSIVE contentListeners(_, _, _)
contentListeners(s, i, code) ==
    IF i > Len(s.listeners) THEN s
    ELSE contentListeners(contentKeydown(s, i, code), i + 1, code)

dispatchKeydown(s, code, home) ==
    LET fresh == [s EXCEPT !.clicks = <<>>, !.defaultPrevented = FALSE]
        inRegion == s.inputFocus.kind = "content"
        afterContent == IF inRegion THEN contentListeners(fresh, 1, code) ELSE fresh
    IN  handleKeyPress(afterContent, code, home)

\* Where the default action of a key no handler suppressed (Tab) can leave the
\* input focus: where it was, or on a focusable element of the content region.
FocusTargets(s) ==
    {s.inputFocus}
    \cup {ContentItem(k) : k \in {j \in 0..(MaxContent - 1) :
                                    \E i \in 1..Len(s.listeners) : j < s.listeners[i].m}}

----
\* The vendor key handling of js/panasonic-api.js.

\* panasonic-api.js:141-150
RED == 403
GREEN == 404
YELLOW == 405
BLUE == 406
BACK == 461
MENU == 457
INFO == 457
EXIT == 27
VendorCodes == {RED, GREEN, YELLOW, BLUE, BACK, MENU, INFO, EXIT}

\* this.tvKeyCodes before setupTVKeyHandling has assigned it: undefined
NoKeyCodes == [n \in {} |-> 0]

\* event.key of a key event: one of the digits of the simulation chords, or any
\* other key.  The digit keys carry key codes no table of the page holds.
DigitKeys == {"1", "2", "3", "4"}
EventKeys == DigitKeys \cup {"other"}

\* The engine together with the PanasonicTVAPI object and what it does to the page.
Page ==
    [eng |-> St,
     tv |-> [isTV |-> isTV, tvKeyCodes |-> tvKeyCodes, terminated |-> terminated,
             tvError |-> tvError, dispatched |-> dispatched, vendor |-> vendor]]

\* panasonic-api.js:139-156 (the listener it adds is part of pageKeydown)
setupTVKeyHandling(t) ==
    [t EXCEPT !.tvKeyCodes = [RED |-> RED, GREEN |-> GREEN, YELLOW |-> YELLOW,
                              BLUE |-> BLUE, BACK |-> BACK, MENU |-> MENU,
                              INFO |-> INFO, EXIT |-> EXIT]]

\* panasonic-api.js:7-11 with init, 49-59: tv is the result of detectTVEnvironment
tvConstructed(tv) ==
    LET t == [isTV |-> tv, tvKeyCodes |-> NoKeyCodes, terminated |-> "no",
              tvError |-> FALSE, dispatched |-> <<>>, vendor |-> "none"]
    IN  IF tv THEN setupTVKeyHandling(t) ELSE t

\* panasonic-api.js:201-205: dispatchEvent runs the engine's 'tvBackButton'
\* listener (remote-control.js:34-36) before it returns
handleBackButton(w, home) ==
    [w EXCEPT !.tv.dispatched = Append(@, [type |-> "tvBackButton"]),
              !.eng = handleBackNavigation(@, home)]

\* panasonic-api.js:210-221; answer: what confirm() returns, canClose: whether
\* window.close exists
handleExitButtonNoPrompt(w, answer, canClose) ==
    IF w.tv.isTV /\ canClose
    THEN [w EXCEPT !.tv.terminated = "close"]
    ELSE [w EXCEPT !.tv.terminated = "blank"]

handleExitButton(w, answer, canClose) ==
    IF answer
    THEN IF w.tv.isTV /\ canClose
         THEN [w EXCEPT !.tv.terminated = "close"]
         ELSE [w EXCEPT !.tv.terminated = "blank"]
    ELSE w

\* panasonic-api.js:161-196; real: whether event.preventDefault is the event's own
\* (the simulation chords pass an object whose preventDefault does nothing)
handleTVKeys(w, keyCode, real, home, answer, canClose) ==
    IF DOMAIN w.tv.tvKeyCodes = {}
    THEN [w EXCEPT !.tv.tvError = TRUE]    \* TypeError: this.tvKeyCodes is undefined
    ELSE
        LET k == w.tv.tvKeyCodes
            logged(x, name) == [x EXCEPT !.tv.vendor = name]
            preventDefault(x) == IF real THEN [x EXCEPT !.eng.defaultPrevented = TRUE] ELSE x
        IN  IF keyCode = k.RED THEN preventDefault(logged(w, "red"))
            ELSE IF keyCode = k.GREEN THEN preventDefault(logged(w, "green"))
            ELSE IF keyCode = k.YELLOW THEN preventDefault(logged(w, "yellow"))
            ELSE IF keyCode = k.BLUE THEN preventDefault(logged(w, "blue"))
            ELSE IF keyCode = k.BACK
                 THEN preventDefault(handleBackButton(logged(w, "back"), home))
            ELSE IF keyCode = k.MENU THEN preventDefault(logged(w, "menu"))
            ELSE IF keyCode = k.EXIT
                 THEN preventDefault(handleExitButton(logged(w, "exit"), answer, canClose))
            ELSE w

\* panasonic-api.js:319-336, the keydown listener of simulateTVEnvironment; the
\* argument of handleTVKeys reads this.tvKeyCodes
simulatedKeydown(w, altKey, key, home, answer, canClose) ==
    IF altKey /\ key \in DigitKeys
    THEN IF DOMAIN w.tv.tvKeyCodes = {}
         THEN [w EXCEPT !.tv.tvError = TRUE]
         ELSE LET k == w.tv.tvKeyCodes
                  keyCode == CASE key = "1" -> k.RED
                               [] key = "2" -> k.GREEN
                               [] key = "3" -> k.YELLOW
                               [] key = "4" -> k.BLUE
              IN  handleTVKeys(w, keyCode, FALSE, home, answer, canClose)
    ELSE w

\* A keydown event of the page: the content region's listeners and the engine's
\* document listener (dispatchKeydown), then the document listener PanasonicTVAPI
\* added: handleTVKeys on a TV (panasonic-api.js:153-155), the simulation chords
\* otherwise (129-134, 319).  The two document listeners write disjoint parts of
\* the state, so the order of their registration does not show.
pageKeydown(w, keyCode, altKey, key, home, answer, canClose) ==
    LET w0 == [w EXCEPT !.tv.dispatched = <<>>, !.tv.vendor = "none"]
        w1 == [w0 EXCEPT !.eng = dispatchKeydown(@, keyCode, home)]
    IN  IF w.tv.isTV
        THEN handleTVKeys(w1, keyCode, TRUE, home, answer, canClose)
        ELSE simulatedKeydown(w1, altKey, key, home, answer, canClose)

----
\* The capability probes of js/panasonic-api.js and js/firefox-os-api.js.

\* The global objects and properties the probes read by name, and the global
\* js/firefox-os-api.js:380-382 assigns.
Indicators ==
    {"panasonic", "panasonic.system", "mozApps", "mozSettings", "mozPower",
     "mozBattery", "battery", "getDeviceStorage", "XMLHttpRequest",
     "mozSetMessageHandler", "DeviceLightEvent", "DeviceProximityEvent",
     "HTMLVideoElement", "firefoxOSAPI"}

\* The indicators getSystemInfo() and the settings reads behind it depend on
\* (panasonic-api.js:229, 234; firefox-os-api.js:74, 131).
SystemIndicators ==
    {"panasonic", "panasonic.system", "mozApps", "mozSettings", "firefoxOSAPI"}

\* Hosts that offer any mix of those, and nothing else.
SystemHosts ==
    {[i \in Indicators |-> IF i \in P THEN "present" ELSE "absent"] :
        P \in {X \in SUBSET SystemIndicators :
                    "panasonic.system" \in X => "panasonic" \in X}}

\* What reading an indicator gives: undefined, a value, or an exception.  The
\* page's own global firefoxOSAPI is a plain property, and panasonic.system
\* can be read only off an existing panasonic object.
Hosts ==
    SystemHosts \cup
    {[i \in Indicators |-> IF i \in T THEN "throws"
                           ELSE IF i \in P THEN "present" ELSE "absent"] :
        T \in {X \in SUBSET (Indicators \ {"firefoxOSAPI"}) :
                    /\ Cardinality(X) <= MaxThrowing
                    /\ "panasonic.system" \in X => "panasonic" \notin X},
        P \in {X \in SUBSET Indicators :
                    /\ Cardinality(X) <= MaxPresent
                    /\ "panasonic.system" \in X => "panasonic" \in X}}

PlainHost == [i \in Indicators |-> "absent"]

\* this.capabilities before the constructor has assigned it: undefined
NoCaps == [n \in {} |-> FALSE]

\* A probe that threw returns nothing.
Thrown == [threw |-> TRUE, caps |-> NoCaps]
Returned(c) == [threw |-> FALSE, caps |-> c]

\* The indicators that switch each feature of getCapabilities on
\* (panasonic-api.js:75-98); remoteControl needs none.
PanasonicFeatures ==
    [networkInfo |-> {"panasonic", "mozSettings"},
     systemInfo |-> {"panasonic", "mozApps", "mozSettings"},
     mediaPlayer |-> {"HTMLVideoElement"},
     fileSystem |-> {"getDeviceStorage"},
     firefoxOS |-> {"mozApps"}]

\* The indicators behind each feature of getFirefoxOSCapabilities
\* (firefox-os-api.js:45-53).
FirefoxOSFeatures ==
    [apps |-> {"mozApps"},
     settings |-> {"mozSettings"},
     power |-> {"mozPower"},
     battery |-> {"mozBattery", "battery"},
     deviceStorage |-> {"getDeviceStorage"},
     systemXHR |-> {"XMLHttpRequest"},
     activities |-> {"mozSetMessageHandler"},
     deviceLight |-> {"DeviceLightEvent"},
     deviceProximity |-> {"DeviceProximityEvent"}]

\* panasonic-api.js:64-101: no read is guarded
getCapabilities(h) ==
    IF \E i \in {"panasonic", "mozApps", "getDeviceStorage", "mozSettings",
                  "HTMLVideoElement"} : h[i] = "throws"
    THEN Thrown
    ELSE Returned([remoteControl |-> TRUE,
                   networkInfo |-> h["panasonic"] = "present" \/ h["mozSettings"] = "present",
                   systemInfo |-> \/ h["panasonic"] = "present"
                                  \/ h["mozApps"] = "present"
                                  \/ h["mozSettings"] = "present",
                   mediaPlayer |-> h["HTMLVideoElement"] = "present",
                   fileSystem |-> h["getDeviceStorage"] = "present",
                   firefoxOS |-> h["mozApps"] = "present"])

\* firefox-os-api.js:43-57: no read is guarded; navigator.battery is read only
\* when navigator.mozBattery is falsy
getFirefoxOSCapabilities(h) ==
    IF \/ \E i \in {"mozApps", "mozSettings", "mozPower", "mozBattery",
                     "getDeviceStorage", "XMLHttpRequest", "mozSetMessageHandler",
                     "DeviceLightEvent", "DeviceProximityEvent"} : h[i] = "throws"
       \/ h["mozBattery"] = "absent" /\ h["battery"] = "throws"
    THEN Thrown
    ELSE Returned([apps |-> h["mozApps"] = "present",
                   settings |-> h["mozSettings"] = "present",
                   power |-> h["mozPower"] = "present",
                   battery |-> h["mozBattery"] = "present" \/ h["battery"] = "present",
                   deviceStorage |-> h["getDeviceStorage"] = "present",
                   systemXHR |-> h["XMLHttpRequest"] = "present",
                   activities |-> h["mozSetMessageHandler"] = "present",
                   deviceLight |-> h["DeviceLightEvent"] = "present",
                   deviceProximity |-> h["DeviceProximityEvent"] = "present"])

\* panasonic-api.js:226-247: who answers.  infoThrows: whether
\* window.panasonic.system.getInfo() throws.  Every exception of the try block
\* ends in the placeholder record.
\* value: what the caller holds: a record, the native provider's own answer, a
\* promise still pending, or what the promise resolved to (a record or null).
SysValue(kind, model, version, platform) ==
    [kind |-> kind, model |-> model, version |-> version, platform |-> platform]
NoSysValue == SysValue("none", "", "", "")
NativeAnswer == SysValue("native", "", "", "")
PendingAnswer == SysValue("promise", "", "", "")
NullAnswer == SysValue("null", "", "", "")

\* panasonic-api.js:242-246
Placeholder ==
    SysValue("record", "Unknown Panasonic TV", "1.0", "Panasonic TV (Firefox OS-based)")

getSystemInfoNullFallback(h, infoThrows) ==
    LET caught == [by |-> "placeholder", caught |-> TRUE, nativeThrew |-> infoThrows,
                   value |-> NullAnswer]
        from(who, v) == [by |-> who, caught |-> FALSE, nativeThrew |-> FALSE, value |-> v]
    IN  IF h["panasonic"] = "throws" THEN caught
        ELSE IF h["panasonic"] = "present" /\ h["panasonic.system"] = "throws" THEN caught
        ELSE IF h["panasonic"] = "present" /\ h["panasonic.system"] = "present"
             THEN (IF infoThrows THEN caught ELSE from("panasonic", NativeAnswer))
        ELSE IF h["mozApps"] = "throws" THEN caught
        ELSE IF h["mozApps"] = "present" /\ h["firefoxOSAPI"] = "present"
             THEN from("firefoxOS", PendingAnswer)
        ELSE from("placeholder", NullAnswer)

getSystemInfo(h, infoThrows) ==
    LET caught == [by |-> "placeholder", caught |-> TRUE, nativeThrew |-> infoThrows,
                   value |-> Placeholder]                    \* lines 237-246
        from(who, v) == [by |-> who, caught |-> FALSE, nativeThrew |-> FALSE, value |-> v]
    IN  IF h["panasonic"] = "throws" THEN caught
        ELSE IF h["panasonic"] = "present" /\ h["panasonic.system"] = "throws" THEN caught
        ELSE IF h["panasonic"] = "present" /\ h["panasonic.system"] = "present"
             THEN (IF infoThrows THEN caught ELSE from("panasonic", NativeAnswer))
        ELSE IF h["mozApps"] = "throws" THEN caught
        ELSE IF h["mozApps"] = "present" /\ h["firefoxOSAPI"] = "present"
             THEN from("firefoxOS", PendingAnswer)    \* the promise of an async function
        ELSE from("placeholder", Placeholder)

\* How an awaited firefoxOSAPI.getSystemSetting(key) ends (firefox-os-api.js:232-247):
\* "null": resolved with null (no this.settings, or createLock().get threw and
\* was caught); "value": resolved with the setting; "empty": resolved with
\* undefined (the provider has no such setting); "error": rejected.
SettingOutcomes == {"null", "value", "empty", "error"}

\* panasonic-api.js:385-405, entered with window.firefoxOSAPI present: what the
\* promise resolves to, given how the two awaited reads end.  A rejected read
\* ends in the catch block.
getFirefoxOSSystemInfo(hardware, os) ==
    IF hardware = "error" \/ os = "error"
    THEN NullAnswer
    ELSE SysValue("record",
                  IF hardware = "value" THEN "deviceinfo.hardware" ELSE "Panasonic TV",
                  IF os = "value" THEN "deviceinfo.os" ELSE "1.0",
                  "Panasonic TV (Firefox OS)")

----
\* The accessors of js/firefox-os-api.js (class FirefoxOSAPI).

StorageTypes == {"videos", "music", "pictures"}
\* The classes the page asks for: two the switch of getStorageFiles knows and
\* one it does not.
StorageArgs == {"videos", "pictures", "documents"}
Keys == {"deviceinfo.hardware", "deviceinfo.os"}
SettingValues == {"on"}
Undefined == "undefined"
\* The origins of the apps a host may have installed, and the one the page launches.
Origins == {"app://video", "app://music"}
LaunchTargets == {"app://video"}

\* What the constructor leaves behind (firefox-os-api.js:62-87): this.settings
\* (130-137), this.capabilities.apps, and the storage areas initDeviceStorage
\* assigned, in its order, before a getDeviceStorage call threw (114-125).
FxObjects ==
    [settings : BOOLEAN, apps : BOOLEAN,
     storage : {{}, {"videos"}, StorageTypes}]

NoFx == [settings |-> FALSE, apps |-> FALSE, storage |-> {}]
FullFx == [settings |-> TRUE, apps |-> TRUE, storage |-> StorageTypes]

\* What a promise settles with.
Val(kind, b, items, v) == [kind |-> kind, b |-> b, items |-> items, v |-> v]
NoValue == Val("none", FALSE, <<>>, "")
NullValue == Val("null", FALSE, <<>>, "")
BoolValue(b) == Val("bool", b, <<>>, "")
FilesValue(files) == Val("files", FALSE, files, "")
SettingValue(v) == Val("setting", FALSE, <<>>, v)
ErrorValue == Val("error", FALSE, <<>>, "")

\* One call of an accessor: the promise it returned, the provider's request
\* object and what the closure of its callbacks holds.
\*   request: "none", "open", "succeeded" or "failed";
\*   supplied, cursor: the files behind the enumeration, and those not yet
\*   delivered; files: the closure's array; continues: request.continue() calls;
\*   settles: calls of resolve or reject; invoked: calls into the provider;
\*   given: the setting value the provider delivered or was handed, or whether
\*   the app was among the installed ones; launch: the app's launch request;
\*   threw: "sync" in the accessor's try block, "callback" in onsuccess;
\*   keyed: a key event was delivered while the promise was pending.
newCall(op, arg) ==
    [op |-> op, arg |-> arg, promise |-> "pending", value |-> NoValue,
     request |-> "none", supplied |-> <<>>, cursor |-> <<>>, files |-> <<>>,
     continues |-> 0, settles |-> 0, invoked |-> 0, given |-> "",
     launch |-> "none", threw |-> "no", keyed |-> FALSE]

\* resolve(v) and reject(e) of a promise: only the first of them settles it.
resolve(c, v) ==
    [c EXCEPT !.settles = @ + 1,
              !.promise = IF @ = "pending" THEN "resolved" ELSE @,
              !.value = IF c.promise = "pending" THEN v ELSE @]

reject(c) ==
    [c EXCEPT !.settles = @ + 1,
              !.promise = IF @ = "pending" THEN "rejected" ELSE @,
              !.value = IF c.promise = "pending" THEN ErrorValue ELSE @]

\* firefox-os-api.js:232-247; throws: createLock().get(key) throws
getSystemSetting(f, key, throws) ==
    LET c == newCall("getSystemSetting", key)
    IN  IF ~f.settings THEN resolve(c, NullValue)
        ELSE IF throws
             THEN resolve([c EXCEPT !.invoked = 1, !.threw = "sync"], NullValue)
        ELSE [c EXCEPT !.invoked = 1, !.request = "open"]

\* firefox-os-api.js:252-270; throws: createLock().set(setting) throws
setSystemSetting(f, key, value, throws) ==
    LET c == [newCall("setSystemSetting", key) EXCEPT !.given = value]
    IN  IF ~f.settings THEN resolve(c, BoolValue(FALSE))
        ELSE IF throws
             THEN resolve([c EXCEPT !.invoked = 1, !.threw = "sync"], BoolValue(FALSE))
        ELSE [c EXCEPT !.invoked = 1, !.request = "open"]

getStorageFilesUnchecked(f, storageType, throws, items) ==
    LET c == newCall("getStorageFiles", storageType)
    IN  IF storageType \notin StorageTypes THEN resolve(c, FilesValue(<<>>))
        ELSE IF throws
             THEN resolve([c EXCEPT !.invoked = 1, !.threw = "sync"], FilesValue(<<>>))
        ELSE [c EXCEPT !.invoked = 1, !.request = "open",
                       !.supplied = items, !.cursor = items]

\* firefox-os-api.js:275-316; throws: storage.enumerate(path) throws; items: the
\* files the provider's cursor is going to deliver
getStorageFiles(f, storageType, throws, items) ==
    LET c == newCall("getStorageFiles", storageType)
    IN  IF storageType \notin StorageTypes THEN resolve(c, FilesValue(<<>>))   \* default:
        ELSE IF storageType \notin f.storage THEN resolve(c, FilesValue(<<>>))
        ELSE IF throws
             THEN resolve([c EXCEPT !.invoked = 1, !.threw = "sync"], FilesValue(<<>>))
        ELSE [c EXCEPT !.invoked = 1, !.request = "open",
                       !.supplied = items, !.cursor = items]

\* firefox-os-api.js:321-346; throws: navigator.mozApps.getInstalled() throws
launchApp(f, appOrigin, throws) ==
    LET c == newCall("launchApp", appOrigin)
    IN  IF ~f.apps THEN resolve(c, BoolValue(FALSE))
        ELSE IF throws
             THEN resolve([c EXCEPT !.invoked = 1, !.threw = "sync"], BoolValue(FALSE))
        ELSE [c EXCEPT !.invoked = 1, !.request = "open"]

\* The provider's answer to get(key): an object with that one property.
SettingsResult(key, v) == [k \in Keys |-> IF k = key THEN v ELSE Undefined]

getSettingSuccessOtherKey(c, v) ==
    LET result == SettingsResult(c.arg, v)
        other == CHOOSE k \in Keys : k # c.arg
    IN  resolve([c EXCEPT !.request = "succeeded", !.given = v],
                SettingValue(result[other]))

\* request.onsuccess of getSystemSetting (line 240)
getSettingSuccess(c, v) ==
    LET result == SettingsResult(c.arg, v)
    IN  resolve([c EXCEPT !.request = "succeeded", !.given = v],
                SettingValue(result[c.arg]))

\* request.onsuccess of setSystemSetting (line 263)
setSettingSuccess(c) ==
    resolve([c EXCEPT !.request = "succeeded"], BoolValue(TRUE))

storageSuccessUnshift(c) ==
    IF c.cursor # <<>>
    THEN [c EXCEPT !.files = <<Head(c.cursor)>> \o @,
                   !.continues = @ + 1,
                   !.cursor = Tail(@)]
    ELSE resolve([c EXCEPT !.request = "succeeded"], FilesValue(c.files))

\* request.onsuccess of getStorageFiles (lines 301-309): request.result is the
\* cursor's next file, or null behind the last one; request.continue() lets
\* the provider move on to the file after it.
storageSuccess(c) ==
    IF c.cursor # <<>>
    THEN [c EXCEPT !.files = Append(@, Head(c.cursor)),
                   !.continues = @ + 1,
                   !.cursor = Tail(@)]
    ELSE resolve([c EXCEPT !.request = "succeeded"], FilesValue(c.files))

\* request.onsuccess of launchApp (lines 329-339); apps: the origins of
\* request.result; launchThrows: targetApp.launch() throws, which ends the
\* callback before resolve is reached
launchSuccess(c, apps, launchThrows) ==
    IF c.arg \in apps
    THEN IF launchThrows
         THEN [c EXCEPT !.request = "succeeded", !.given = "installed",
                        !.threw = "callback"]
         ELSE resolve([c EXCEPT !.request = "succeeded", !.given = "installed",
                                !.launch = "requested"], BoolValue(TRUE))
    ELSE resolve([c EXCEPT !.request = "succeeded", !.given = "missing"],
                 BoolValue(FALSE))

\* request.onerror of each accessor (lines 241, 264, 310, 340)
requestError(c) == reject([c EXCEPT !.request = "failed"])

\* The page: the engine and the accessor calls.
World == [eng |-> St, calls |-> calls]

\* A provider can call back while its request is open; a cursor delivers the
\* next file only once request.continue() has asked for it.
CanCallBack(c) ==
    /\ c.request = "open"
    /\ c.continues = Len(c.supplied) - Len(c.cursor)

onsuccessSharedFiles(w, i, v, apps, launchThrows) ==
    LET c == w.calls[i]
    IN  IF c.op = "getStorageFiles" /\ c.cursor # <<>>
        THEN [w EXCEPT !.calls =
                [j \in DOMAIN w.calls |->
                    IF j = i THEN storageSuccess(c)
                    ELSE IF w.calls[j].op = "getStorageFiles" /\ w.calls[j].request = "open"
                         THEN [w.calls[j] EXCEPT !.files = Append(@, Head(c.cursor))]
                    ELSE w.calls[j]]]
        ELSE [w EXCEPT !.calls[i] =
                CASE c.op = "getSystemSetting" -> getSettingSuccess(c, v)
                  [] c.op = "setSystemSetting" -> setSettingSuccess(c)
                  [] c.op = "getStorageFiles" -> storageSuccess(c)
                  [] OTHER -> launchSuccess(c, apps, launchThrows)]

\* The success signal of the request of call i runs that call's own closure.
onsuccess(w, i, v, apps, launchThrows) ==
    LET c == w.calls[i]
    IN  [w EXCEPT !.calls[i] =
            CASE c.op = "getSystemSetting" -> getSettingSuccess(c, v)
              [] c.op = "setSystemSetting" -> setSettingSuccess(c)
              [] c.op = "getStorageFiles" -> storageSuccess(c)
              [] OTHER -> launchSuccess(c, apps, launchThrows)]

\* The error signal of the request of call i.
onerror(w, i) == [w EXCEPT !.calls[i] = requestError(w.calls[i])]

AnyPending(w) == \E i \in DOMAIN w.calls : w.calls[i].promise = "pending"

keydownQueuedBehindCalls(w, code, home) ==
    [eng |-> IF AnyPending(w) THEN w.eng ELSE dispatchKeydown(w.eng, code, home),
     calls |-> [i \in DOMAIN w.calls |->
                    [w.calls[i] EXCEPT !.keyed = @ \/ w.calls[i].promise = "pending"]]]

\* A keydown event of the document (remote-control.js:29): the event loop runs
\* its listeners whatever promises are pending.
keydownDuringCalls(w, code, home) ==
    [eng |-> dispatchKeydown(w.eng, code, home),
     calls |-> [i \in DOMAIN w.calls |->
                    [w.calls[i] EXCEPT !.keyed = @ \/ w.calls[i].promise = "pending"]]]

----
\* The page load (the DOMContentLoaded listeners of the four scripts) and the
\* app shell of js/app.js (class PanasonicTVApp).

\* The globals the listeners assign (remote-control.js:336-338,
\* panasonic-api.js:409-411, firefox-os-api.js:380-382, app.js:500-502).
Singletons == {"remoteControl", "panasonicAPI", "firefoxOSAPI", "tvApp"}

\* navigator.userAgent, by what the two detections look for in it: tv: one of
\* 'panasonic', 'viera', 'ce-html', 'hbbtv'; firefox: 'Firefox' or 'Mobile; rv:'.
UserAgents == [tv : BOOLEAN, firefox : BOOLEAN]

\* The indicators of Firefox OS APIs a host of the page load may provide.
LoadIndicators ==
    {"mozApps", "mozSettings", "mozPower", "getDeviceStorage", "mozSetMessageHandler"}

LoadHosts ==
    {[i \in Indicators |-> IF i \in P THEN "present" ELSE "absent"] :
        P \in {X \in SUBSET LoadIndicators : Cardinality(X) <= MaxPresent}}

\* The features initFirefoxOSFeatures initializes (firefox-os-api.js:62-87).
InitFeatures == {"apps", "deviceStorage", "settings", "activities", "power"}

\* The media files an activity may carry, by the prefix of data.type
\* (firefox-os-api.js:187-193).
MediaTypes == {"video", "audio", "image", "other"}

Sections == {"home", "media"}

\* The 'sectionChange' event showSection sent last, and the section that was
\* current when that call began.
NoChange == [sent |-> FALSE, previous |-> "", current |-> "", was |-> ""]

\* Before any DOMContentLoaded listener has run.
NoPageOn(ua) ==
    [ua |-> ua, window |-> {}, integrated |-> FALSE, initialized |-> {},
     media |-> "none"]

\* No PanasonicTVApp: phase is "none", "waiting" (a poll is scheduled), "ready"
\* (waitForComponents has resolved), or "initialized".
NoApp ==
    [phase |-> "none", polls |-> 0, listeners |-> FALSE, currentSection |-> "",
     isInitialized |-> FALSE, change |-> NoChange]

\* panasonic-api.js:16-44
detectTVEnvironment(h, ua) ==
    LET hasTVIndicator == ua.tv
        hasFirefoxOS == ua.firefox
        hasFirefoxOSAPIs == \/ h["mozApps"] = "present"
                            \/ h["mozSettings"] = "present"
                            \/ h["getDeviceStorage"] = "present"
    IN  hasTVIndicator \/ (hasFirefoxOS /\ hasFirefoxOSAPIs)

\* firefox-os-api.js:16-25
detectFirefoxOS(h, ua) ==
    \/ h["mozApps"] = "present"
    \/ h["mozSettings"] = "present"
    \/ h["mozPower"] = "present"
    \/ ua.firefox

\* firefox-os-api.js:62-87 with 92-110, 114-125, 130-137, 142-157, 162-177: the
\* features whose initialization ran to its end, and the object the accessors
\* find.  stored: the storage areas assigned before a getDeviceStorage call
\* threw; handlerSet: whether mozSetMessageHandler took the handler.
initFirefoxOSFeatures(c, stored, handlerSet) ==
    [initialized |->
        {f \in InitFeatures :
            /\ c[f]
            /\ f = "deviceStorage" => stored = StorageTypes
            /\ f = "activities" => handlerSet},
     fx |-> [settings |-> c["settings"], apps |-> c["apps"],
             storage |-> IF c["deviceStorage"] THEN stored ELSE {}]]

\* new FirefoxOSAPI() (firefox-os-api.js:7-11, 30-38) on a host none of whose
\* indicators throws.
newFirefoxOSAPI(h, ua, stored, handlerSet) ==
    LET c == getFirefoxOSCapabilities(h).caps
        i == initFirefoxOSFeatures(c, stored, handlerSet)
    IN  IF detectFirefoxOS(h, ua)
        THEN [capabilities |-> c, initialized |-> i.initialized, fx |-> i.fx]
        ELSE [capabilities |-> c, initialized |-> {},
              fx |-> [settings |-> FALSE, apps |-> c["apps"], storage |-> {}]]

\* new PanasonicTVAPI() (panasonic-api.js:7-11, 49-59, 106-124) on a host none of
\* whose indicators throws; hasFirefoxOSAPI: whether window.firefoxOSAPI is set.
\* integrated: integrateFirefoxOSFeatures has added its listeners (362-380).
newPanasonicTVAPI(h, ua, hasFirefoxOSAPI) ==
    LET tv == detectTVEnvironment(h, ua)
        c == getCapabilities(h).caps
    IN  [capabilities |-> c, tv |-> tvConstructed(tv),
         integrated |-> tv /\ c["firefoxOS"] /\ hasFirefoxOSAPI]

checkComponentsApiOnly(a, window) ==
    IF "panasonicAPI" \in window
    THEN [a EXCEPT !.phase = "ready"]
    ELSE [a EXCEPT !.phase = "waiting"]

\* app.js:52-58: resolve, or setTimeout(checkComponents, 100)
checkComponents(a, window) ==
    IF "panasonicAPI" \in window /\ "remoteControl" \in window
    THEN [a EXCEPT !.phase = "ready"]
    ELSE [a EXCEPT !.phase = "waiting"]

\* new PanasonicTVApp() (app.js:7-12) up to the await of init (17-24)
newPanasonicTVApp(window) ==
    checkComponents([NoApp EXCEPT !.currentSection = "home"], window)

\* app.js:117-144; exists: whether the document holds the section's element
showSection(a, sectionName, exists) ==
    IF exists
    THEN LET a1 == [a EXCEPT !.currentSection = sectionName]
         IN  [a1 EXCEPT !.change = [sent |-> TRUE, previous |-> a1.currentSection,
                                    current |-> sectionName, was |-> a.currentSection]]
    ELSE a

\* app.js:25-38: init after the await; exists: whether the document holds the
\* home section
initAfterWait(a, exists) ==
    LET a1 == [a EXCEPT !.listeners = TRUE]          \* setupEventListeners
        a2 == showSection(a1, "home", exists)
    IN  [a2 EXCEPT !.isInitialized = TRUE, !.phase = "initialized"]

\* firefox-os-api.js:182-198: the event handleViewActivity sends for a file
handleViewActivity(p, type) ==
    IF type \in {"video", "audio", "image"} THEN [p EXCEPT !.media = type] ELSE p

----
\* The state machine.

OpOf(code) ==
    CASE code = KeyLeft -> "left"
      [] code = KeyUp -> "up"
      [] code = KeyRight -> "right"
      [] code = KeyDown -> "down"
      [] code \in {KeyEnter, KeySpace} -> "activate"
      [] code = KeyEscape -> "back"
      [] OTHER -> "other"

\* r: the state the operation ends in; lst: the scopes an Up, Down or scope entry
\* started from; afterEnable: a Left or Right key that follows a scope entry;
\* afterReset: a Left or Right key that follows a reset() made inside a scope
Snapshot(op, home, r) ==
    [op |-> op, home |-> home,
     cf |-> currentFocus, sameItems |-> r.navItems = navItems,
     scoped |-> inputFocus.kind = "content",
     lst |-> IF op \in {"up", "down", "enable", "enableNothing"} THEN listeners ELSE <<>>,
     afterEnable |-> op \in {"left", "right"} /\ last.op = "enable",
     afterReset |-> op \in {"left", "right"} /\ last.op = "reset" /\ last.scoped,
     untouched |-> (r.active = active /\ r.inputFocus = inputFocus)]

Commit(r) ==
    /\ navItems' = r.navItems
    /\ currentFocus' = r.currentFocus
    /\ isNavigating' = r.isNavigating
    /\ active' = r.active
    /\ inputFocus' = r.inputFocus
    /\ listeners' = r.listeners
    /\ clicks' = r.clicks
    /\ defaultPrevented' = r.defaultPrevented
    /\ error' = r.error
    /\ UNCHANGED buttons

\* DOMContentLoaded: new RemoteControlHandler() (remote-control.js:336-338, 7-12)
\* over a document with the nav items dom, the buttons b and the markup's
\* 'active' classes act.
InitEngine ==
    \E dom \in ItemSeqs, b \in ButtonSets, act \in Markups :
        LET r == init(constructed(act), dom)
        IN  /\ buttons = b
            /\ navItems = r.navItems
            /\ currentFocus = r.currentFocus
            /\ isNavigating = r.isNavigating
            /\ active = r.active
            /\ inputFocus = r.inputFocus
            /\ listeners = r.listeners
            /\ clicks = r.clicks
            /\ defaultPrevented = r.defaultPrevented
            /\ error = r.error
            /\ last = [op |-> "init", home |-> FALSE,
                       cf |-> 0, sameItems |-> r.navItems = <<>>, scoped |-> FALSE, lst |-> <<>>,
                       afterEnable |-> FALSE, afterReset |-> FALSE,
                       untouched |-> (r.active = act /\ r.inputFocus = NoFocus)]
            /\ runKind = "none"
            /\ runLen = 0
            /\ runStart = 0

NoEvent == [keyCode |-> 0, altKey |-> FALSE, key |-> "other", answer |-> FALSE]

\* No PanasonicTVAPI has been constructed.
NoTVApi ==
    /\ isTV = FALSE
    /\ tvKeyCodes = NoKeyCodes
    /\ terminated = "no"
    /\ tvError = FALSE
    /\ dispatched = <<>>
    /\ vendor = "none"
    /\ ev = NoEvent

\* No capability probe has run, on the host h.
NoProbe(h) ==
    /\ host = h
    /\ caps = NoCaps
    /\ fxCaps = NoCaps
    /\ probed = {}
    /\ probeThrew = {}
    /\ sysInfo = [by |-> "none", caught |-> FALSE, nativeThrew |-> FALSE,
                   value |-> NoSysValue]

\* The engine on a page on which no PanasonicTVAPI has been constructed.
\* No FirefoxOSAPI accessor has been called, on an object without providers.
NoAccessor ==
    /\ fx = NoFx
    /\ calls = <<>>

\* No page load is followed and no app shell exists.
NoLoad ==
    /\ page = NoPageOn([tv |-> FALSE, firefox |-> FALSE])
    /\ app = NoApp

Init ==
    /\ InitEngine
    /\ NoTVApi
    /\ NoProbe(PlainHost)
    /\ NoAccessor
    /\ NoLoad

\* A keydown event with a code the handlers know (document listener, line 29).
Keydown ==
    \E code \in KeyCodes \ {KeyTab}, home \in BOOLEAN :
        LET r == dispatchKeydown(St, code, home)
        IN  /\ code # KeyEscape => ~home
            /\ Commit(r)
            /\ last' = Snapshot(OpOf(code), home, r)

\* A keydown event with a code no handler knows: nothing suppresses its default
\* action, which may move the input focus.
KeydownOther ==
    \E f \in FocusTargets(St) :
        LET r == [dispatchKeydown(St, KeyTab, FALSE) EXCEPT !.inputFocus = f]
        IN  /\ Commit(r)
            /\ last' = Snapshot(OpOf(KeyTab), FALSE, r)

\* The 'tvBackButton' notification (remote-control.js:34-36).
TvBackButton ==
    \E home \in BOOLEAN :
        LET r == handleBackNavigation([St EXCEPT !.clicks = <<>>], home)
        IN  /\ Commit(r)
            /\ last' = Snapshot("tvBackButton", home, r)

\* reset() over a document whose nav items are dom.
Reset ==
    \E dom \in ItemSeqs :
        LET r == reset([St EXCEPT !.clicks = <<>>], dom)
        IN  /\ Commit(r)
            /\ last' = Snapshot("reset", FALSE, r)

EnableContentNavigation ==
    \E el \in BOOLEAN, m \in RegionSizes :
        LET r == enableContentNavigation([St EXCEPT !.clicks = <<>>], el, m)
        IN  /\ Len(listeners) < MaxListeners
            /\ ~el => m = 0
            /\ Commit(r)
            /\ last' = Snapshot(IF el /\ m > 0 THEN "enable" ELSE "enableNothing", FALSE, r)

DisableContentNavigation ==
    \E el \in BOOLEAN :
        LET r == disableContentNavigation([St EXCEPT !.clicks = <<>>], el)
        IN  /\ Commit(r)
            /\ last' = Snapshot("disable", FALSE, r)

\* The engine's steps; the row counters are kept by SpecRun only.
NoRun == UNCHANGED <<runKind, runLen, runStart>>

\* The engine's steps leave the PanasonicTVAPI object alone.
NoTV == UNCHANGED tvVars /\ UNCHANGED capVars /\ UNCHANGED accVars /\ UNCHANGED loadVars

Next ==
    \/ Keydown /\ NoRun /\ NoTV
    \/ KeydownOther /\ NoRun /\ NoTV
    \/ TvBackButton /\ NoRun /\ NoTV
    \/ Reset /\ NoRun /\ NoTV
    \/ EnableContentNavigation /\ NoRun /\ NoTV
    \/ DisableContentNavigation /\ NoRun /\ NoTV

Spec == Init /\ [][Next]_vars

\* The top-level engine with the rows of Left and of Right keys counted: a row
\* ends with any other operation.
RunBroken == runKind' = "none" /\ runLen' = 0 /\ runStart' = 0

RunCounted ==
    IF last'.op \in {"left", "right"}
    THEN IF runKind = last'.op
         THEN /\ runLen' = (IF runLen < MaxItems + 1 THEN runLen + 1 ELSE runLen)
              /\ UNCHANGED <<runKind, runStart>>
         ELSE /\ runKind' = last'.op
              /\ runLen' = 1
              /\ runStart' = currentFocus
    ELSE RunBroken

NextRun ==
    \/ Keydown /\ RunCounted /\ NoTV
    \/ KeydownOther /\ RunBroken /\ NoTV
    \/ TvBackButton /\ RunBroken /\ NoTV
    \/ Reset /\ RunBroken /\ NoTV

SpecRun == Init /\ [][NextRun]_vars

\* The page with both objects constructed (remote-control.js:336-338 and
\* panasonic-api.js:409-411), on a TV or in a browser.
InitTV ==
    /\ InitEngine
    /\ \E tv \in BOOLEAN :
        LET t == tvConstructed(tv)
        IN  /\ isTV = t.isTV
            /\ tvKeyCodes = t.tvKeyCodes
            /\ terminated = t.terminated
            /\ tvError = t.tvError
            /\ dispatched = t.dispatched
            /\ vendor = t.vendor
    /\ ev = NoEvent
    /\ NoProbe(PlainHost)
    /\ NoAccessor
    /\ NoLoad

\* The key events of the page: a digit key has a code no table holds, and the
\* modifier is tried on the keys no table holds.
PageEvents ==
    {e \in [keyCode : KeyCodes \cup VendorCodes, altKey : BOOLEAN, key : EventKeys] :
        /\ e.key \in DigitKeys => e.keyCode = KeyTab
        /\ e.altKey => e.keyCode = KeyTab}

\* A keydown event on the page, until the page is left.
PageKeydown ==
    /\ terminated = "no"
    /\ \E e \in PageEvents, home \in BOOLEAN, answer \in BOOLEAN, canClose \in BOOLEAN :
        LET w == pageKeydown(Page, e.keyCode, e.altKey, e.key, home, answer, canClose)
        IN  /\ home => e.keyCode \in {KeyEscape, BACK}
            /\ (answer \/ canClose) => e.keyCode = EXIT
            /\ canClose => answer
            /\ Commit(w.eng)
            /\ last' = Snapshot(OpOf(e.keyCode), home, w.eng)
            /\ isTV' = w.tv.isTV
            /\ tvKeyCodes' = w.tv.tvKeyCodes
            /\ terminated' = w.tv.terminated
            /\ tvError' = w.tv.tvError
            /\ dispatched' = w.tv.dispatched
            /\ vendor' = w.tv.vendor
            /\ ev' = [keyCode |-> e.keyCode, altKey |-> e.altKey, key |-> e.key,
                       answer |-> answer]

NextTV == PageKeydown /\ NoRun /\ UNCHANGED capVars /\ UNCHANGED accVars /\ UNCHANGED loadVars

SpecTV == InitTV /\ [][NextTV]_vars

\* The capability probes and the system-info accessor on any host, next to an
\* engine over a page without nav items.
InitCaps ==
    /\ InitEngine
    /\ navItems = <<>> /\ buttons = Elems /\ active = {}
    /\ NoTVApi
    /\ \E h \in Hosts : NoProbe(h)
    /\ NoAccessor
    /\ NoLoad

\* new PanasonicTVAPI(): this.capabilities = this.getCapabilities() (panasonic-api.js:9)
ProbePanasonic ==
    LET r == getCapabilities(host)
    IN  /\ "getCapabilities" \notin probed
        /\ probed' = probed \cup {"getCapabilities"}
        /\ probeThrew' = (IF r.threw THEN probeThrew \cup {"getCapabilities"} ELSE probeThrew)
        /\ caps' = r.caps
        /\ UNCHANGED <<host, fxCaps, sysInfo>>

\* new FirefoxOSAPI(): this.capabilities = this.getFirefoxOSCapabilities()
\* (firefox-os-api.js:9)
ProbeFirefoxOS ==
    LET r == getFirefoxOSCapabilities(host)
    IN  /\ "getFirefoxOSCapabilities" \notin probed
        /\ probed' = probed \cup {"getFirefoxOSCapabilities"}
        /\ probeThrew' = (IF r.threw THEN probeThrew \cup {"getFirefoxOSCapabilities"}
                          ELSE probeThrew)
        /\ fxCaps' = r.caps
        /\ UNCHANGED <<host, caps, sysInfo>>

\* panasonicAPI.getSystemInfo() of a constructed PanasonicTVAPI (app.js:257)
GetSystemInfoDowngrades ==
    /\ "getCapabilities" \in probed \ probeThrew
    /\ \E infoThrows \in BOOLEAN :
        /\ infoThrows => (host["panasonic"] = "present" /\ host["panasonic.system"] = "present")
        /\ sysInfo' = getSystemInfo(host, infoThrows)
        /\ caps' = IF sysInfo'.by = "placeholder"
                   THEN [caps EXCEPT !["systemInfo"] = FALSE] ELSE caps
    /\ UNCHANGED <<host, fxCaps, probed, probeThrew>>

GetSystemInfo ==
    /\ "getCapabilities" \in probed \ probeThrew
    /\ \E infoThrows \in BOOLEAN :
        /\ infoThrows => (host["panasonic"] = "present" /\ host["panasonic.system"] = "present")
        /\ sysInfo' = getSystemInfo(host, infoThrows)
    /\ UNCHANGED <<host, caps, fxCaps, probed, probeThrew>>

\* The promise getSystemInfo() returned settles: the two settings reads of
\* getFirefoxOSSystemInfo end, with null when FirefoxOSAPI holds no this.settings
\* (firefox-os-api.js:74-76, 233-235).
SettleSystemInfo ==
    /\ sysInfo.value = PendingAnswer
    /\ \E hardware \in SettingOutcomes, os \in SettingOutcomes :
        /\ host["mozSettings"] # "present" => (hardware = "null" /\ os = "null")
        /\ hardware = "error" => os = "null"    \* the second read is never made
        /\ sysInfo' = [sysInfo EXCEPT !.value = getFirefoxOSSystemInfo(hardware, os)]
    /\ UNCHANGED <<host, caps, fxCaps, probed, probeThrew>>

NoEngine == UNCHANGED <<navItems, currentFocus, isNavigating, active, buttons, inputFocus,
                        listeners, clicks, defaultPrevented, error, last>>

NoCalls == UNCHANGED accVars /\ UNCHANGED loadVars

NextCaps ==
    \/ ProbePanasonic /\ NoEngine /\ NoRun /\ UNCHANGED tvVars /\ NoCalls
    \/ ProbeFirefoxOS /\ NoEngine /\ NoRun /\ UNCHANGED tvVars /\ NoCalls
    \/ GetSystemInfo /\ NoEngine /\ NoRun /\ UNCHANGED tvVars /\ NoCalls
    \/ SettleSystemInfo /\ NoEngine /\ NoRun /\ UNCHANGED tvVars /\ NoCalls

SpecCaps == InitCaps /\ [][NextCaps]_vars

\* The accessors of FirefoxOSAPI on an object fx, next to an engine over a page
\* without nav items.
InitAcc ==
    /\ InitEngine
    /\ navItems = <<>> /\ buttons = Elems /\ active = {}
    /\ NoTVApi
    /\ NoProbe(PlainHost)
    /\ fx \in FxObjects
    /\ calls = <<>>
    /\ NoLoad

\* The page after a step of an accessor or of a provider callback.
CommitWorld(w) ==
    /\ Commit(w.eng)
    /\ calls' = w.calls
    /\ UNCHANGED <<fx, last>>

Called(c) == CommitWorld([World EXCEPT !.calls = Append(@, c)])

\* How many files an enumeration is tried with: none, or as many as the model has.
FileCounts == {0, MaxFiles}

\* The files the cursor of the call number id delivers.
Items(id, n) == [k \in 1..n |-> [call |-> id, file |-> k]]

\* firefoxOSAPI.getSystemSetting(key) (panasonic-api.js:392-393)
CallGetSystemSetting(limit) ==
    /\ Len(calls) < limit
    /\ \E key \in Keys, throws \in BOOLEAN :
        /\ throws => fx.settings
        /\ Called(getSystemSetting(fx, key, throws))

\* firefoxOSAPI.setSystemSetting(key, value)
CallSetSystemSetting(limit) ==
    /\ Len(calls) < limit
    /\ \E key \in Keys, value \in SettingValues, throws \in BOOLEAN :
        /\ throws => fx.settings
        /\ Called(setSystemSetting(fx, key, value, throws))

\* firefoxOSAPI.getStorageFiles(storageType)
CallGetStorageFiles(limit) ==
    /\ Len(calls) < limit
    /\ \E storageType \in StorageArgs, throws \in BOOLEAN, n \in FileCounts :
        /\ storageType \notin fx.storage => (~throws /\ n = 0)
        /\ throws => n = 0
        /\ Called(getStorageFiles(fx, storageType, throws, Items(Len(calls) + 1, n)))

\* firefoxOSAPI.launchApp(appOrigin)
CallLaunchApp(limit) ==
    /\ Len(calls) < limit
    /\ \E appOrigin \in LaunchTargets, throws \in BOOLEAN :
        /\ throws => fx.apps
        /\ Called(launchApp(fx, appOrigin, throws))

\* A provider signals success on the request of one call.
RequestSuccess ==
    \E i \in DOMAIN calls :
        /\ CanCallBack(calls[i])
        /\ \E v \in SettingValues \cup {Undefined}, apps \in SUBSET Origins,
              launchThrows \in BOOLEAN :
            /\ calls[i].op # "getSystemSetting" => v = Undefined
            /\ calls[i].op # "launchApp" => (apps = {} /\ ~launchThrows)
            /\ launchThrows => calls[i].arg \in apps
            /\ CommitWorld(onsuccess(World, i, v, apps, launchThrows))

\* A provider signals an error on the request of one call.
RequestError ==
    \E i \in DOMAIN calls :
        /\ CanCallBack(calls[i])
        /\ CommitWorld(onerror(World, i))

\* The provider signals how the launch request of targetApp.launch() ended; the
\* page has put no callback on it (firefox-os-api.js:335).
LaunchSignal ==
    \E i \in DOMAIN calls, outcome \in {"succeeded", "failed"} :
        /\ calls[i].launch = "requested"
        /\ CommitWorld([World EXCEPT !.calls[i].launch = outcome])

NoOther == NoRun /\ UNCHANGED tvVars /\ UNCHANGED capVars /\ UNCHANGED loadVars

NextAcc ==
    \/ CallGetSystemSetting(MaxCalls) /\ NoOther
    \/ CallSetSystemSetting(MaxCalls) /\ NoOther
    \/ CallGetStorageFiles(MaxCalls) /\ NoOther
    \/ CallLaunchApp(MaxCalls) /\ NoOther
    \/ RequestSuccess /\ NoOther
    \/ RequestError /\ NoOther
    \/ LaunchSignal /\ NoOther

SpecAcc == InitAcc /\ [][NextAcc]_vars

\* The accessors with a provider that does not sit on an open request for ever:
\* it goes on firing the request's success or error signal.
ProviderFires == (RequestSuccess \/ RequestError) /\ NoOther

SpecAccLive == InitAcc /\ [][NextAcc]_vars /\ WF_vars(ProviderFires)

\* The engine over a page with all its nav items, and the accessors of a
\* FirefoxOSAPI object that has every provider.
InitNav ==
    /\ InitEngine
    /\ Len(navItems) = MaxItems /\ buttons = Elems
    /\ NoTVApi
    /\ NoProbe(PlainHost)
    /\ fx = FullFx
    /\ calls = <<>>
    /\ NoLoad

\* A keydown event with a code the engine knows, whatever calls are pending.
NavKeydown ==
    \E code \in KeyCodes \ {KeyTab}, home \in BOOLEAN :
        LET w == keydownDuringCalls(World, code, home)
        IN  /\ code # KeyEscape => ~home
            /\ Commit(w.eng)
            /\ calls' = w.calls
            /\ last' = Snapshot(OpOf(code), home, w.eng)
            /\ UNCHANGED fx

\* The page calls an accessor whose provider takes the request: the call stays
\* pending until the provider calls back.
CallPending ==
    /\ Len(calls) < MaxPending
    /\ \E c \in {getSystemSetting(fx, "deviceinfo.hardware", FALSE),
                 getStorageFiles(fx, "videos", FALSE, Items(Len(calls) + 1, MaxFiles)),
                 launchApp(fx, "app://video", FALSE)} :
        Called(c)

NextNav ==
    \/ NavKeydown /\ NoOther
    \/ CallPending /\ NoOther
    \/ RequestSuccess /\ NoOther
    \/ RequestError /\ NoOther
    \/ LaunchSignal /\ NoOther

SpecNav == InitNav /\ [][NextNav]_vars

\* The page load on a host with some Firefox OS APIs and some user agent, over a
\* document without nav items: no DOMContentLoaded listener has run yet.
InitLoad ==
    /\ InitEngine
    /\ navItems = <<>> /\ buttons = Elems /\ active = {}
    /\ NoTVApi
    /\ \E h \in LoadHosts : NoProbe(h)
    /\ NoAccessor
    /\ \E ua \in UserAgents : page = NoPageOn(ua)
    /\ app = NoApp

\* The listeners run in the order the document names the scripts in, which no
\* file of the repository fixes: any order.
\* remote-control.js:336-338
LoadRemoteControl ==
    /\ "remoteControl" \notin page.window
    /\ page' = [page EXCEPT !.window = @ \cup {"remoteControl"}]
    /\ NoEngine /\ NoRun
    /\ UNCHANGED <<tvVars, capVars, accVars, app>>

\* panasonic-api.js:409-411
LoadPanasonicAPI ==
    LET r == newPanasonicTVAPI(host, page.ua, "firefoxOSAPI" \in page.window)
    IN  /\ "panasonicAPI" \notin page.window
        /\ page' = [page EXCEPT !.window = @ \cup {"panasonicAPI"},
                                !.integrated = r.integrated]
        /\ caps' = r.capabilities
        /\ probed' = probed \cup {"getCapabilities"}
        /\ isTV' = r.tv.isTV
        /\ tvKeyCodes' = r.tv.tvKeyCodes
        /\ terminated' = r.tv.terminated
        /\ tvError' = r.tv.tvError
        /\ dispatched' = r.tv.dispatched
        /\ vendor' = r.tv.vendor
        /\ NoEngine /\ NoRun
        /\ UNCHANGED <<ev, host, fxCaps, probeThrew, sysInfo, accVars, app>>

\* firefox-os-api.js:380-382
LoadFirefoxOSAPI ==
    /\ "firefoxOSAPI" \notin page.window
    /\ \E stored \in {{}, {"videos"}, StorageTypes}, handlerSet \in BOOLEAN :
        LET r == newFirefoxOSAPI(host, page.ua, stored, handlerSet)
            reached(f) == detectFirefoxOS(host, page.ua) /\ r.capabilities[f]
        IN  /\ ~reached("deviceStorage") => stored = {}
            /\ ~reached("activities") => ~handlerSet
            /\ page' = [page EXCEPT !.window = @ \cup {"firefoxOSAPI"},
                                    !.initialized = r.initialized]
            /\ fxCaps' = r.capabilities
            /\ fx' = r.fx
    /\ probed' = probed \cup {"getFirefoxOSCapabilities"}
    /\ host' = [host EXCEPT !["firefoxOSAPI"] = "present"]
    /\ NoEngine /\ NoRun
    /\ UNCHANGED <<tvVars, caps, probeThrew, sysInfo, calls, app>>

\* app.js:500-502
LoadTvApp ==
    /\ "tvApp" \notin page.window
    /\ page' = [page EXCEPT !.window = @ \cup {"tvApp"}]
    /\ app' = newPanasonicTVApp(page.window)
    /\ NoEngine /\ NoRun
    /\ UNCHANGED <<tvVars, capVars, accVars>>

\* The timer of waitForComponents fires (app.js:56).
AppPoll ==
    /\ app.phase = "waiting"
    /\ app' = [checkComponents(app, page.window) EXCEPT
                    !.polls = IF @ < MaxPolls THEN @ + 1 ELSE @]
    /\ NoEngine /\ NoRun
    /\ UNCHANGED <<tvVars, capVars, accVars, page>>

\* init goes on behind its await (app.js:25-38).
AppInit ==
    /\ app.phase = "ready"
    /\ \E exists \in BOOLEAN : app' = initAfterWait(app, exists)
    /\ NoEngine /\ NoRun
    /\ UNCHANGED <<tvVars, capVars, accVars, page>>

\* A click on a nav button whose section is sectionName (app.js:68-72, 107-112).
ShowSection ==
    /\ app.listeners
    /\ \E sectionName \in Sections, exists \in BOOLEAN :
        app' = showSection(app, sectionName, exists)
    /\ NoEngine /\ NoRun
    /\ UNCHANGED <<tvVars, capVars, accVars, page>>

\* An 'activity' message reaches the handler initActivities has set
\* (firefox-os-api.js:145-152).
Activity ==
    /\ "activities" \in page.initialized
    /\ \E type \in MediaTypes : page' = handleViewActivity(page, type)
    /\ NoEngine /\ NoRun
    /\ UNCHANGED <<tvVars, capVars, accVars, app>>

\* The keys tried on the loaded page: one of the engine's and one of the vendor's.
LoadKeys == {KeyRight, RED}

\* A keydown event once the engine and the PanasonicTVAPI object listen.
LoadKeydown ==
    /\ {"remoteControl", "panasonicAPI"} \subseteq page.window
    /\ \E code \in LoadKeys :
        LET w == pageKeydown(Page, code, FALSE, "other", FALSE, FALSE, FALSE)
        IN  /\ Commit(w.eng)
            /\ last' = Snapshot(OpOf(code), FALSE, w.eng)
            /\ isTV' = w.tv.isTV
            /\ tvKeyCodes' = w.tv.tvKeyCodes
            /\ terminated' = w.tv.terminated
            /\ tvError' = w.tv.tvError
            /\ dispatched' = w.tv.dispatched
            /\ vendor' = w.tv.vendor
            /\ ev' = [keyCode |-> code, altKey |-> FALSE, key |-> "other",
                       answer |-> FALSE]
    /\ NoRun
    /\ UNCHANGED <<capVars, accVars, loadVars>>

NextLoad ==
    \/ LoadRemoteControl
    \/ LoadPanasonicAPI
    \/ LoadFirefoxOSAPI
    \/ LoadTvApp
    \/ AppPoll
    \/ AppInit
    \/ ShowSection
    \/ Activity
    \/ LoadKeydown
    \/ GetSystemInfo /\ NoEngine /\ NoRun /\ UNCHANGED tvVars /\ NoCalls

SpecLoad == InitLoad /\ [][NextLoad]_vars

----
\* The claims.

N == Len(navItems)
InRange(i, n) == i >= 0 /\ i < n
Marked == active \cap Range(navItems)
Idle == inputFocus.kind # "content"
Min(a, b) == IF a < b THEN a ELSE b
Max(a, b) == IF a > b THEN a ELSE b

\* C1: whenever the item sequence is non-empty, 0 <= currentFocus < length, and
\* getNavigationState reports that index together with totalItems = length.
C1_IndexInRange ==
    N > 0 =>
        /\ InRange(currentFocus, N)
        /\ getNavigationState(St).currentFocus = currentFocus
        /\ getNavigationState(St).totalItems = N
        /\ InRange(getNavigationState(St).currentFocus, getNavigationState(St).totalItems)

\* C1 witness: a reset has shortened the sequence below the index held before it.
C1_Witness ==
    last.op = "reset" /\ N > 0 /\ last.cf >= N /\ InRange(currentFocus, N)

\* C2: on a non-empty item sequence exactly one item carries the 'active' marker,
\* and it is the item at currentFocus.
C2_OneMarked ==
    N > 0 => InRange(currentFocus, N) /\ Marked = {navItems[currentFocus + 1]}

\* C2 witness: a Left or Right key has moved the focus to another item.
C2_Witness ==
    /\ last.op \in {"left", "right"}
    /\ N >= 2
    /\ last.cf # currentFocus
    /\ Marked = {navItems[currentFocus + 1]}

\* C3: at the top level with n >= 1 items at index i, a Left key sets the index to
\* (i - 1 + n) mod n and a Right key to (i + 1) mod n.
C3_WrapAround ==
    (~last.scoped /\ N >= 1) =>
        /\ last.op = "left" => currentFocus = (last.cf - 1 + N) % N
        /\ last.op = "right" => currentFocus = (last.cf + 1) % N

\* C3 witness: a Left key at index 0 of at least two items has wrapped to the last.
C3_Witness ==
    last.op = "left" /\ ~last.scoped /\ N >= 2 /\ last.cf = 0 /\ currentFocus = N - 1

\* C4: with n >= 2 items, n Right keys in a row (and likewise n Left keys) bring
\* currentFocus back to where the row began.
C4_FullCircle ==
    (runKind \in {"left", "right"} /\ N >= 2 /\ runLen = N) => currentFocus = runStart

\* C4 witness: a full row of Right keys over three or more items, begun off index 0.
C4_Witness ==
    runKind = "right" /\ N >= 3 /\ runLen = N /\ runStart > 0 /\ currentFocus = runStart

\* C5: with at most one item, a Left or Right key leaves currentFocus as it was,
\* raises no error and sets isNavigating.
C5_NothingToMoveTo ==
    (last.op \in {"left", "right"} /\ N <= 1) =>
        last.sameItems /\ currentFocus = last.cf /\ ~error /\ isNavigating

\* C5 witness: a Left or Right key on an empty sequence whose index is left over
\* from a longer one.
C5_Witness ==
    last.op \in {"left", "right"} /\ N = 0 /\ last.cf > 0 /\ isNavigating

\* C6: a Left or Right key delivered inside the content region right after the
\* scope was entered leaves currentFocus at the value it had at entry.
C6_ExitRestoresIndex ==
    (last.op \in {"left", "right"} /\ last.afterEnable /\ last.scoped) =>
        currentFocus = last.cf

\* C7: the index of a content scope of size m stays within 0..m-1; inside the
\* scope a Down key sets it to min(index + 1, m - 1), an Up key to max(index - 1, 0).
C7_ScopedClamp ==
    /\ \A i \in 1..Len(listeners) : InRange(listeners[i].contentFocus, listeners[i].m)
    /\ (last.scoped /\ last.op \in {"up", "down"}) =>
        /\ Len(listeners) = Len(last.lst)
        /\ \A i \in 1..Len(listeners) :
            /\ listeners[i].m = last.lst[i].m
            /\ last.op = "down" =>
                listeners[i].contentFocus =
                    Min(last.lst[i].contentFocus + 1, listeners[i].m - 1)
            /\ last.op = "up" =>
                listeners[i].contentFocus = Max(last.lst[i].contentFocus - 1, 0)

\* C7 witness: a Down key at the last element of a scope of two or more stays there.
C7_Witness ==
    /\ last.scoped /\ last.op = "down"
    /\ \E i \in 1..Len(listeners) :
        /\ listeners[i].m >= 2
        /\ last.lst[i].contentFocus = listeners[i].m - 1
        /\ listeners[i].contentFocus = listeners[i].m - 1

C9_ResetToZero ==
    last.op = "reset" => currentFocus = 0

\* C10 as claimed: over an empty sequence, Left, Right, activation and back
\* navigation do nothing at all.
C10_EmptyAllNoOps ==
    (N = 0 /\ last.op \in {"left", "right", "activate", "back", "tvBackButton"}) =>
        /\ clicks = <<>>
        /\ currentFocus = last.cf
        /\ last.sameItems

\* C10 as amended: construction over a non-empty sequence focuses index 0 (marker
\* on item 0 alone); over an empty one it focuses nothing; and while the sequence
\* is empty, Left, Right and activation change no index, marker or input focus,
\* click nothing and raise no error, and a back navigation does the same except
\* that it still clicks #home-btn when that element exists.
C10_InitAndEmpty ==
    /\ last.op = "init" =>
        /\ N > 0 => currentFocus = 0 /\ Marked = {navItems[1]}
        /\ N = 0 => currentFocus = 0 /\ inputFocus = NoFocus /\ last.untouched
        /\ clicks = <<>> /\ ~isNavigating
    /\ (N = 0
        /\ last.op \in {"left", "right", "activate", "back", "tvBackButton"}) =>
        /\ last.sameItems
        /\ currentFocus = last.cf
        /\ last.untouched
        /\ ~error
        /\ clicks = (IF last.op \in {"back", "tvBackButton"} /\ last.home
                     THEN <<HomeBtn>> ELSE <<>>)

\* C10 witness: a back navigation over an empty sequence, with a home button.
C10_Witness ==
    /\ N = 0 /\ last.op \in {"back", "tvBackButton"} /\ last.home
    /\ clicks = <<HomeBtn>> /\ currentFocus = last.cf

\* C11: an activation key (Enter or Space) at the top level with the index i on an
\* item clicks the .nav-button of the item at i, once, and nothing else (nothing
\* at all when that item holds no button); it leaves currentFocus, the item
\* sequence, the markers and the input focus as they were and raises no error.
C11_ActivateCurrentOnly ==
    (last.op = "activate" /\ ~last.scoped /\ InRange(last.cf, N)) =>
        /\ last.sameItems
        /\ currentFocus = last.cf
        /\ last.untouched
        /\ ~error
        /\ clicks = (IF navItems[last.cf + 1] \in buttons
                     THEN <<navItems[last.cf + 1]>> ELSE <<>>)

\* C11 witness: an activation at an index other than 0 has clicked that item's button.
C11_Witness ==
    /\ last.op = "activate" /\ ~last.scoped /\ N >= 2
    /\ last.cf > 0 /\ currentFocus = last.cf
    /\ clicks = <<navItems[last.cf + 1]>>

\* C12: enableContentNavigation at the top level over a region with m > 0
\* focusable elements registers a scope of size m whose index starts at 0, moves
\* the input focus to the region's first element and leaves currentFocus and the
\* item sequence as they were; without a region, or with a region that holds no
\* focusable element, it registers no scope and moves no focus.
C12_EnterScope ==
    /\ (last.op = "enable" /\ ~last.scoped) =>
        /\ Len(listeners) = Len(last.lst) + 1
        /\ listeners[Len(listeners)].m > 0
        /\ listeners[Len(listeners)].contentFocus = 0
        /\ \A i \in 1..Len(last.lst) : listeners[i] = last.lst[i]
        /\ inputFocus = ContentItem(0)
        /\ currentFocus = last.cf
        /\ last.sameItems
        /\ ~error
    /\ last.op = "enableNothing" =>
        /\ listeners = last.lst
        /\ last.untouched
        /\ currentFocus = last.cf
        /\ last.sameItems
        /\ ~error

\* C12 witness: a scope of two elements entered from a top-level index other than 0.
C12_Witness ==
    /\ last.op = "enable" /\ ~last.scoped /\ last.cf > 0
    /\ listeners[Len(listeners)] = [m |-> 2, contentFocus |-> 0]
    /\ inputFocus = ContentItem(0) /\ currentFocus = last.cf

\* C13: every key the router handles (arrows, Enter, Space, Escape) leaves
\* isNavigating true, and every other key leaves it false.
C13_AllHandledKeysSetFlag ==
    /\ last.op \in {"left", "up", "right", "down", "activate", "back"} => isNavigating
    /\ last.op = "other" => ~isNavigating

\* The codes some table of the page maps to an action: the engine's
\* (remote-control.js:68-87) and the vendor's (panasonic-api.js:141-150).
MappedCodes ==
    {KeyLeft, KeyUp, KeyRight, KeyDown, KeyEnter, KeySpace, KeyEscape}
    \cup {RED, GREEN, YELLOW, BLUE, BACK, MENU, EXIT}

\* C14: on a TV and in a browser alike, a key event whose code is mapped to an
\* action has its default behaviour suppressed, and a key event with any other
\* code has not and runs no engine operation.
C14_MappedCodesSuppressed ==
    last.op # "init" =>
        /\ ev.keyCode \in MappedCodes => defaultPrevented
        /\ ev.keyCode \notin MappedCodes =>
            /\ ~defaultPrevented
            /\ last.untouched /\ last.sameItems
            /\ currentFocus = last.cf /\ clicks = <<>>

\* C15: in the browser, the chord of the modifier and a digit 1..4 logs the
\* vendor button the matching colour key logs on a TV, suppresses the event's
\* default behaviour as that key does, and throws nothing.
C15_ChordRoutesAsVendorKey ==
    (~isTV /\ ev.altKey /\ ev.key \in DigitKeys) =>
        /\ vendor = (CASE ev.key = "1" -> "red"
                        [] ev.key = "2" -> "green"
                        [] ev.key = "3" -> "yellow"
                        [] ev.key = "4" -> "blue")
        /\ defaultPrevented
        /\ ~tvError

\* C16: the page is left (window.close() or the move to about:blank) only by an
\* exit key whose prompt was answered yes; an exit key whose prompt was answered
\* no leaves the page running.
C16_ExitOnlyWhenConfirmed ==
    /\ terminated # "no" => (vendor = "exit" /\ ev.keyCode = EXIT /\ ev.answer)
    /\ (vendor = "exit" /\ ~ev.answer) => terminated = "no"
    /\ vendor # "exit" => terminated = "no"

\* C16 witness: the exit key on a TV, answered yes, has closed the window.
C16_Witness ==
    isTV /\ vendor = "exit" /\ ev.keyCode = EXIT /\ ev.answer /\ terminated = "close"

\* C17: whenever a key event has changed currentFocus, a 'focus-changed' event
\* carrying the new index is among the events it sent to the document.
C17_FocusChangeNotified ==
    (last.op # "init" /\ currentFocus # last.cf) =>
        \E i \in 1..Len(dispatched) :
            /\ dispatched[i].type = "focus-changed"
            /\ dispatched[i].detail = currentFocus

\* C18: no handler of the engine throws, whatever the keys, back notifications,
\* resets and scope entries and exits before it and however many items there are.
C18_EngineNeverThrows == ~error

\* C18 witness: an activation key over an empty sequence whose index is left over
\* from a longer one has found no item and done nothing.
C18_Witness ==
    /\ last.op = "activate" /\ N = 0 /\ last.cf > 0
    /\ clicks = <<>> /\ currentFocus = last.cf /\ ~error

\* C19: a capability probe that has run has not thrown and has reported every
\* feature: false where none of the feature's indicators is there, true where one
\* is, whatever reading the other indicators did.
C19_ProbeNeverThrows ==
    /\ probeThrew = {}
    /\ "getCapabilities" \in probed =>
        /\ DOMAIN caps = DOMAIN PanasonicFeatures \cup {"remoteControl"}
        /\ \A f \in DOMAIN PanasonicFeatures :
            caps[f] = (\E i \in PanasonicFeatures[f] : host[i] = "present")
    /\ "getFirefoxOSCapabilities" \in probed =>
        /\ DOMAIN fxCaps = DOMAIN FirefoxOSFeatures
        /\ \A f \in DOMAIN FirefoxOSFeatures :
            fxCaps[f] = (\E i \in FirefoxOSFeatures[f] : host[i] = "present")

\* What the capability map goes by for system-info: the vendor object
\* (panasonic-api.js:75-78) for the primary, the Firefox OS objects (81-93) for
\* the secondary.
PrimaryHasSystemInfo == host["panasonic"] = "present"
SecondaryHasSystemInfo == host["mozApps"] = "present" \/ host["mozSettings"] = "present"

\* C20: a getSystemInfo() whose provider did not fail is answered by the primary
\* (vendor) provider if the capability map has system-info from it, otherwise by
\* the secondary (Firefox OS) provider if the map has it from that, otherwise by
\* the placeholder.
C20_PrimaryThenSecondary ==
    (sysInfo.by # "none" /\ ~sysInfo.caught) =>
        sysInfo.by = (IF PrimaryHasSystemInfo THEN "panasonic"
                      ELSE IF SecondaryHasSystemInfo THEN "firefoxOS"
                      ELSE "placeholder")

\* C21: what getSystemInfo() yields, at once or when its promise settles, is a
\* record with model, version and platform (or the native provider's own
\* answer), never null, whichever providers are there and however they fail.
C21_SystemInfoNeverNull ==
    sysInfo.by # "none" =>
        /\ sysInfo.value.kind \in {"record", "native", "promise"}
        /\ sysInfo.value.kind = "record" =>
            (sysInfo.value.model # "" /\ sysInfo.value.version # ""
             /\ sysInfo.value.platform # "")

NativePresent == host["panasonic"] = "present" /\ host["panasonic.system"] = "present"
SecondaryAvailable == host["mozApps"] = "present" /\ host["firefoxOSAPI"] = "present"

\* C22: on a host whose indicators can all be read, getSystemInfo() is answered
\* by the native provider when it is there and its call succeeds, otherwise (also
\* when the native call failed) by the Firefox OS provider when that is
\* available, otherwise by the placeholder.
C22_NativeThenSettingsThenPlaceholder ==
    (sysInfo.by # "none" /\ \A i \in Indicators : host[i] # "throws") =>
        sysInfo.by = (IF NativePresent /\ ~sysInfo.nativeThrew THEN "panasonic"
                      ELSE IF SecondaryAvailable THEN "firefoxOS"
                      ELSE "placeholder")

\* The indicators of Firefox OS APIs (panasonic-api.js:37-41, firefox-os-api.js:45-53).
FirefoxOSIndicators ==
    {"mozApps", "mozSettings", "mozPower", "mozBattery", "getDeviceStorage",
     "mozSetMessageHandler"}

\* C23: with neither the native object nor any Firefox OS API on the host,
\* getSystemInfo() returns at once, through no catch block, the record with model
\* "Unknown Panasonic TV", version "1.0" and a platform label.
C23_PlaceholderWhenNothing ==
    (sysInfo.by # "none" /\ host["panasonic"] = "absent"
     /\ \A i \in FirefoxOSIndicators : host[i] = "absent") =>
        /\ sysInfo.by = "placeholder"
        /\ ~sysInfo.caught
        /\ sysInfo.value.kind = "record"
        /\ sysInfo.value.model = "Unknown Panasonic TV"
        /\ sysInfo.value.version = "1.0"
        /\ sysInfo.value.platform # ""

\* C23 witness: getSystemInfo() has answered on a host that offers nothing but the
\* page's own FirefoxOSAPI object and a video element.
C23_Witness ==
    /\ sysInfo.by = "placeholder" /\ sysInfo.value = Placeholder
    /\ host["firefoxOSAPI"] = "present" /\ host["HTMLVideoElement"] = "present"
    /\ \A i \in Indicators \ {"firefoxOSAPI", "HTMLVideoElement"} : host[i] = "absent"

\* Whether the provider behind an accessor call is missing on the object fx
\* (firefox-os-api.js:233, 253, 291, 322).
ProviderAbsent(c) ==
    CASE c.op \in {"getSystemSetting", "setSystemSetting"} -> ~fx.settings
      [] c.op = "getStorageFiles" -> c.arg \notin StorageTypes \/ c.arg \notin fx.storage
      [] OTHER -> ~fx.apps

\* The documented fallback of each accessor (lines 234, 254, 288/292, 323).
Fallback(op) ==
    CASE op = "getSystemSetting" -> NullValue
      [] op = "getStorageFiles" -> FilesValue(<<>>)
      [] OTHER -> BoolValue(FALSE)

\* C24: a call whose provider is absent (or whose storage class is invalid) is
\* resolved with the accessor's fallback, null, false or the empty sequence, with
\* no call into a provider and no exception; launchApp also resolves false when
\* the provider is there and none of the installed apps matches.
C24_FallbackWithoutProvider ==
    \A i \in DOMAIN calls :
        LET c == calls[i]
        IN  /\ ProviderAbsent(c) =>
                /\ c.promise = "resolved" /\ c.value = Fallback(c.op)
                /\ c.invoked = 0 /\ c.request = "none" /\ c.threw = "no"
            /\ (c.op = "launchApp" /\ c.given = "missing") =>
                (c.promise = "resolved" /\ c.value = BoolValue(FALSE))

\* C24 witness: a listing of an invalid storage class has given the empty
\* sequence, and a launch has found no matching app among the installed ones.
C24_Witness ==
    \E i, j \in DOMAIN calls :
        /\ calls[i].op = "getStorageFiles" /\ calls[i].arg = "documents"
        /\ calls[i].value = FilesValue(<<>>)
        /\ calls[j].op = "launchApp" /\ calls[j].given = "missing"
        /\ calls[j].value = BoolValue(FALSE)

\* C25: with this.settings set, getSystemSetting resolves with the provider's
\* value for the key on the provider's success signal and rejects on its error
\* signal; setSystemSetting resolves true on success and rejects on error.
C25_SettingsFollowProvider ==
    \A i \in DOMAIN calls :
        LET c == calls[i]
        IN  c.op \in {"getSystemSetting", "setSystemSetting"} =>
                /\ c.request = "succeeded" =>
                    /\ c.promise = "resolved"
                    /\ c.value = IF c.op = "getSystemSetting" THEN SettingValue(c.given)
                                 ELSE BoolValue(TRUE)
                /\ c.request = "failed" => (c.promise = "rejected" /\ c.value = ErrorValue)

\* C25 witness: a read has resolved with the value the provider holds, and a
\* write has been rejected.
C25_Witness ==
    \E i, j \in DOMAIN calls :
        /\ calls[i].op = "getSystemSetting" /\ calls[i].value = SettingValue("on")
        /\ calls[j].op = "setSystemSetting" /\ calls[j].promise = "rejected"

\* C26: an enumeration the provider has taken is advanced once for every file
\* delivered, and when the cursor signals its end the promise has been resolved
\* exactly once, with all the files of the cursor in the provider's order.
C26_CursorDrainedInOrder ==
    \A i \in DOMAIN calls :
        LET c == calls[i]
        IN  (c.op = "getStorageFiles" /\ c.request # "none") =>
                /\ c.continues = Len(c.supplied) - Len(c.cursor)
                /\ c.request = "succeeded" =>
                    /\ c.cursor = <<>>
                    /\ c.promise = "resolved" /\ c.settles = 1
                    /\ c.value = FilesValue(c.supplied)

\* C26 witness: a listing has resolved with as many files as the model has.
C26_Witness ==
    \E i \in DOMAIN calls :
        /\ calls[i].op = "getStorageFiles" /\ calls[i].request = "succeeded"
        /\ Len(calls[i].value.items) = MaxFiles
        /\ calls[i].continues = MaxFiles

\* C27: launchApp has resolved true only when the provider has signalled the
\* success of the launch request itself.
C27_TrueOnlyAfterLaunchSuccess ==
    \A i \in DOMAIN calls :
        (calls[i].op = "launchApp" /\ calls[i].value = BoolValue(TRUE)) =>
            calls[i].launch = "succeeded"

\* C28: no getStorageFiles or launchApp call is rejected or leaves an exception
\* behind, and a call whose provider signalled an error, at the call or on the
\* request, is resolved with the fallback.
C28_ProviderErrorsContained ==
    \A i \in DOMAIN calls :
        LET c == calls[i]
        IN  c.op \in {"getStorageFiles", "launchApp"} =>
                /\ c.promise # "rejected"
                /\ c.threw # "callback"
                /\ (c.request = "failed" \/ c.threw = "sync") =>
                    (c.promise = "resolved" /\ c.value = Fallback(c.op))

C30_OwnResultOnly ==
    \A i \in DOMAIN calls :
        LET c == calls[i]
        IN  /\ \A k \in 1..Len(c.files) : c.files[k].call = i
            /\ \A k \in 1..Len(c.value.items) : c.value.items[k].call = i
            /\ c.value.kind = "setting" => c.value.v = c.given
            /\ c.promise # "pending" => c.request # "open"

\* C30 witness: two listings were pending at once and the later one has settled
\* first, with its files, while the earlier one has collected a file.
C30_Witness ==
    /\ Len(calls) >= 2
    /\ calls[1].op = "getStorageFiles" /\ calls[2].op = "getStorageFiles"
    /\ calls[1].promise = "pending" /\ Len(calls[1].files) >= 1
    /\ calls[2].promise = "resolved" /\ Len(calls[2].value.items) = MaxFiles

\* C32: a Left or Right key delivered inside a content scope right after a
\* reset() that rebuilt the item sequence raises no error and leaves currentFocus
\* within the rebuilt sequence (at 0 when the sequence is empty).
C32_ExitAfterResetInRange ==
    (last.op \in {"left", "right"} /\ last.scoped /\ last.afterReset) =>
        /\ ~error
        /\ IF N > 0 THEN InRange(currentFocus, N) ELSE currentFocus = 0

\* The actions the last key event of the page has set off: a move or an
\* activation by the engine's key table (remote-control.js:69-91), a back
\* navigation by the engine's case 27 or through the 'tvBackButton' event, an
\* exit request by handleExitButton.
Triggered ==
    {a \in {"move", "activate", "back", "exit"} :
        \/ a = "move" /\ last.op \in {"left", "right", "up", "down"}
        \/ a = "activate" /\ last.op = "activate"
        \/ a = "back" /\ (last.op = "back"
                          \/ \E i \in 1..Len(dispatched) : dispatched[i].type = "tvBackButton")
        \/ a = "exit" /\ vendor = "exit"}

\* C33: a key event sets off at most one of the actions move, activate,
\* back-navigate and exit; in particular code 27 does not cause a back navigation
\* and an exit request together.
C33_OneActionPerKey == Cardinality(Triggered) <= 1

\* C34: with a provider that fires a signal on every open request, every call
\* that has reached the provider is settled in the end, also when its success
\* handler fails.
C34_EveryCallSettles ==
    \A i \in 1..MaxCalls :
        (i \in DOMAIN calls /\ calls[i].invoked = 1)
            ~> (i \in DOMAIN calls /\ calls[i].promise # "pending")

\* C31: once a capability map has been assigned by its constructor, no step of
\* the page (the other constructors, the app shell's start, a section change, an
\* activity, a key event, getSystemInfo) changes it.
C31_CapabilityMapsFixed ==
    [][/\ DOMAIN caps # {} => caps' = caps
       /\ DOMAIN fxCaps # {} => fxCaps' = fxCaps]_vars

\* C31 witness: with both maps built, the page has seen a section change, an
\* activity, a vendor key and a getSystemInfo() call.
C31_Witness ==
    /\ DOMAIN caps # {} /\ DOMAIN fxCaps # {}
    /\ app.change.sent /\ page.media # "none"
    /\ vendor = "red" /\ sysInfo.by # "none"

\* C35: once the FirefoxOSAPI object exists, every feature among apps,
\* settings, deviceStorage, activities and power whose capability flag is true
\* has been initialized, and with deviceStorage true getStorageFiles hands a
\* listing of each valid storage class to the provider.
C35_FlaggedFeaturesInitialized ==
    "firefoxOSAPI" \in page.window =>
        /\ \A f \in InitFeatures : fxCaps[f] => f \in page.initialized
        /\ fxCaps["deviceStorage"] =>
            \A s \in StorageTypes : getStorageFiles(fx, s, FALSE, <<>>).request = "open"

\* C36: once both API objects exist on a TV whose capability map has firefoxOS
\* true, the listeners of integrateFirefoxOSFeatures are installed, whichever of
\* the two was constructed first.
C36_IntegrationWhateverOrder ==
    ({"panasonicAPI", "firefoxOSAPI"} \subseteq page.window /\ isTV /\ caps["firefoxOS"])
        => page.integrated

\* C37: the app shell has left waitForComponents, attached its listeners or set
\* isInitialized only when window.panasonicAPI and window.remoteControl both
\* exist; while one of them is missing the constructed app has a poll scheduled.
C37_InitAfterComponents ==
    LET both == {"panasonicAPI", "remoteControl"} \subseteq page.window
    IN  /\ (app.isInitialized \/ app.listeners \/ app.phase \in {"ready", "initialized"})
                => both
        /\ ("tvApp" \in page.window /\ ~both) => app.phase = "waiting"
        /\ app.isInitialized => app.listeners

\* C37 witness: the app was constructed first, polled, and finished its
\* initialization once the two components were there.
C37_Witness ==
    app.isInitialized /\ app.listeners /\ app.polls >= 1

\* C38: the 'sectionChange' event showSection sent last carries as previous
\* the section that was current when the call began, and as current the section
\* shown.
C38_ChangeCarriesPrevious ==
    app.change.sent =>
        /\ app.change.previous = app.change.was
        /\ app.change.current = app.currentSection

====
